---- MODULE Spec2Model ----
(***************************************************************************)
(* The process-lifecycle supervisor of roachdemo: one node (node.go) of a  *)
(* cluster (cluster.go), the goroutines that act on it and the child       *)
(* processes it launches.                                                   *)
(*                                                                         *)
(* The code takes no lock anywhere.  Every HTTP request runs in its own    *)
(* goroutine, every launched run has a goroutine waiting for the process   *)
(* and a goroutine handling its completion.  Each step below is one        *)
(* statement of the source that reads or writes a shared field of the      *)
(* node; statements that touch only goroutine-local data are folded into   *)
(* the step that precedes them.  A second read of n.Active that follows a  *)
(* first one with no synchronisation in between may see the field again or *)
(* the value the goroutine already holds; both are modelled.               *)
(***************************************************************************)
EXTENDS Naturals, Sequences, FiniteSets, TLC

\* Number of nodeRun objects the node may allocate.
MaxRuns == 3
\* Number of HTTP requests served at the same time.
NumCallers == 1
\* Longest text given to replaceVars.
MaxLen == 5

\* Go's nil for *nodeRun; run objects are numbered from 1 in allocation order.
Nil == 0

VARIABLES
    Active,      \* node.Active: Nil or the run object it points to
    Runs,        \* node.Runs: sequence of pointers to run objects
    Service,     \* node.Service
    registered,  \* the node is in cluster.Nodes
    heap,        \* the nodeRun objects allocated so far
    chan,        \* per start() invocation: its exit channel and its waiter goroutine
    pc,          \* per goroutine: the statement it is at
    mine,        \* per goroutine: the *nodeRun it holds (allocated, or read from n.Active)
    lrun,        \* per goroutine: start()'s local variable run
    ch,          \* per goroutine: start()'s local variable c, the exit channel it made
    req,         \* per request goroutine: the route it serves
    halted,      \* history: the stop routes that returned since the last start route
    Stdout,      \* node.Stdout: the path template of the stdout sink, "" or a path
    Stderr,      \* node.Stderr
    files,       \* the file system: per run index, the contents of the two sink files
    closed,      \* cluster.close has run: main has returned
    ex           \* a text on its way through replaceVars (newNode, then node.start)

vars == <<Active, Runs, Service, registered, heap, chan, pc, mine, lrun, ch, req, halted,
          Stdout, Stderr, files, closed, ex>>

\* Goroutines: request handlers of the HTTP server, and one completion
\* handler per start() invocation (named by the run that invocation allocated,
\* as is the exit channel c the invocation makes).
Callers == {<<"c", i>> : i \in 1..NumCallers}
Handlers == {<<"h", i>> : i \in 1..MaxRuns}
Thr == Callers \cup Handlers

IsHandler(t) == t[1] = "h"

\* A panic in a goroutine of the program's own (not a request handler, which
\* net/http recovers) ends the whole program.
crashed ==
    \/ \E t \in Handlers : pc[t] \in {"panicked", "nosink"}
    \/ \E i \in 1..MaxRuns : chan[i].wpc = "nosink"

\* The program has exited: log.Fatalf (os.Exit) was called, or main returned.
exited == closed \/ \E t \in Thr : pc[t] = "fatal"

\* No goroutine of the program runs any more.
ended == crashed \/ exited

\* The new nodeRun of node.start: Cmd set, Cmd.Process nil, no sinks yet.
NewRun(run) ==
    [ID |-> run, proc |-> "none", Paused |-> FALSE, Error |-> FALSE,
     StdoutBuf |-> "nil", StderrBuf |-> "nil", Stopped |-> FALSE]

\* The two sink files of a run index before anything created them.
NoFile == [out |-> "none", err |-> "none"]

\* An exit channel nobody made yet.  tgt is the run whose nodeRun.start got the
\* channel, wpc the place of that run's waiter goroutine, delivered the number
\* of completed sends.
NoChan == [tgt |-> Nil, wpc |-> "none", delivered |-> 0]

\* Cmd.Process != nil
HasProcess(r) == heap[r].proc \in {"live", "dead", "reaped"}

\* Where a goroutine goes when node.start/stop/pause/resume returns.
Ret(t) ==
    IF IsHandler(t) THEN "done" ELSE IF req[t] = "newNode" THEN "register" ELSE "idle"

\* The bookkeeping of a return: the request is over, and a stop route that
\* returns is remembered until the next start route.
Return(t) ==
    /\ req' = IF t \in Callers /\ req[t] # "newNode" THEN [req EXCEPT ![t] = "none"] ELSE req
    /\ halted' = IF t \in Callers /\ req[t] \in {"stopNode", "stopAll"}
                 THEN halted \cup {req[t]} ELSE halted

\* The locals of a goroutine whose call has returned are dead.
Clear(f, t) == [f EXCEPT ![t] = 0]

\* The values a read of n.Active may give a goroutine that holds held.
ReadActive(held) == {held, Active}

\* No text is being expanded: the templates of the node have been through
\* replaceVars.
Expanded ==
    [text |-> <<>>, env |-> <<>>, vars |-> <<>>, out |-> <<>>, stage |-> "done",
     eats |-> TRUE]

\* The node as newNode builds it from its parameters stdout and stderr, at its
\* call of n.start().
InitNode(stdout, stderr) ==
    /\ Stdout = stdout
    /\ Stderr = stderr
    /\ files = [id \in 0..(MaxRuns - 1) |-> NoFile]
    /\ closed = FALSE
    /\ Active = Nil
    /\ Runs = <<>>
    /\ Service = TRUE
    /\ registered = FALSE
    /\ heap = <<>>
    /\ chan = [i \in 1..MaxRuns |-> NoChan]
    /\ pc = [t \in Thr |-> IF t = <<"c", 1>> THEN "start"
                           ELSE IF IsHandler(t) THEN "none" ELSE "idle"]
    /\ mine = [t \in Thr |-> Nil]
    /\ lrun = [t \in Thr |-> 0]
    /\ ch = [t \in Thr |-> Nil]
    /\ req = [t \in Callers |-> IF t = <<"c", 1>> THEN "newNode" ELSE "none"]
    /\ halted = {}

\* cluster.newNode: the sinks are logs/${RUN}.stdout and logs/${RUN}.stderr.
Init == InitNode("path", "path") /\ ex = Expanded

\* newNode called with any stdout and stderr, the empty path included.
InitPaths ==
    /\ \E stdout \in {"", "path"} : \E stderr \in {"", "path"} : InitNode(stdout, stderr)
    /\ ex = Expanded


----------------------------------------------------------------------------
\* Requests (cluster.go).  A request is served once the node is in
\* cluster.Nodes (findNode) and while the program runs.

CanServe(t) == t \in Callers /\ pc[t] = "idle" /\ registered /\ ~ended

\* cluster.startNode: t.Service = true, then t.start()
startNode(t) ==
    /\ CanServe(t)
    /\ Service' = TRUE
    /\ pc' = [pc EXCEPT ![t] = "start"]
    /\ req' = [req EXCEPT ![t] = "startNode"]
    /\ halted' = {}
    /\ UNCHANGED <<ex, Active, Runs, registered, heap, chan, mine, lrun, ch, Stdout, Stderr, closed, files>>

\* cluster.stopNode: t.Service = false, then t.stop()
stopNode(t) ==
    /\ CanServe(t)
    /\ Service' = FALSE
    /\ pc' = [pc EXCEPT ![t] = "stop"]
    /\ req' = [req EXCEPT ![t] = "stopNode"]
    /\ UNCHANGED <<ex, Active, Runs, registered, heap, chan, mine, lrun, ch, halted, Stdout, Stderr, closed, files>>

\* cluster.startAll: t.start() on every node, Service untouched
startAll(t) ==
    /\ CanServe(t)
    /\ pc' = [pc EXCEPT ![t] = "start"]
    /\ req' = [req EXCEPT ![t] = "startAll"]
    /\ halted' = {}
    /\ UNCHANGED <<ex, Active, Runs, Service, registered, heap, chan, mine, lrun, ch, Stdout, Stderr, closed, files>>

\* cluster.stopAll: t.stop() on every node, Service untouched
stopAll(t) ==
    /\ CanServe(t)
    /\ pc' = [pc EXCEPT ![t] = "stop"]
    /\ req' = [req EXCEPT ![t] = "stopAll"]
    /\ UNCHANGED <<ex, Active, Runs, Service, registered, heap, chan, mine, lrun, ch, halted, Stdout, Stderr, closed, files>>

\* cluster.pauseNode / pauseAll: t.pause()
pauseNode(t) ==
    /\ CanServe(t)
    /\ pc' = [pc EXCEPT ![t] = "pause"]
    /\ req' = [req EXCEPT ![t] = "pauseNode"]
    /\ UNCHANGED <<ex, Active, Runs, Service, registered, heap, chan, mine, lrun, ch, halted, Stdout, Stderr, closed, files>>

\* cluster.resumeNode / resumeAll: t.resume()
resumeNode(t) ==
    /\ CanServe(t)
    /\ pc' = [pc EXCEPT ![t] = "resume"]
    /\ req' = [req EXCEPT ![t] = "resumeNode"]
    /\ UNCHANGED <<ex, Active, Runs, Service, registered, heap, chan, mine, lrun, ch, halted, Stdout, Stderr, closed, files>>

\* cluster.newNode, after newNode returned: c.Nodes[node.Name] = node
newNode_register(t) ==
    /\ pc[t] = "register" /\ ~ended
    /\ registered' = TRUE
    /\ pc' = [pc EXCEPT ![t] = "idle"]
    /\ req' = [req EXCEPT ![t] = "none"]
    /\ UNCHANGED <<ex, Active, Runs, Service, heap, chan, mine, lrun, ch, halted, Stdout, Stderr, closed, files>>

----------------------------------------------------------------------------
\* node.start

\* start() without its guard: it goes on whatever n.Active is.
StartGuardDropped == FALSE

\* if n.Active != nil { return }
StartGuard == Active # Nil

start_check(t) ==
    /\ pc[t] = "start" /\ ~ended
    /\ IF StartGuard
       THEN pc' = [pc EXCEPT ![t] = Ret(t)] /\ Return(t)
       ELSE pc' = [pc EXCEPT ![t] = "len"] /\ UNCHANGED <<req, halted>>
    /\ UNCHANGED <<ex, Active, Runs, Service, registered, heap, chan, mine, lrun, ch, Stdout, Stderr, closed, files>>

\* run := len(n.Runs)
start_len(t) ==
    /\ pc[t] = "len" /\ ~ended
    /\ lrun' = [lrun EXCEPT ![t] = Len(Runs)]
    /\ pc' = [pc EXCEPT ![t] = "new"]
    /\ UNCHANGED <<ex, Active, Runs, Service, registered, heap, chan, mine, ch, req, halted, Stdout, Stderr, closed, files>>

\* n.Active = &nodeRun{ID: run, ...}
start_new(t) ==
    /\ pc[t] = "new" /\ ~ended
    /\ Len(heap) < MaxRuns
    /\ heap' = Append(heap, NewRun(lrun[t]))
    /\ Active' = Len(heap) + 1
    /\ mine' = [mine EXCEPT ![t] = Len(heap) + 1]
    /\ ch' = [ch EXCEPT ![t] = Len(heap) + 1]
    /\ lrun' = Clear(lrun, t)
    /\ pc' = [pc EXCEPT ![t] = "append"]
    /\ UNCHANGED <<ex, Runs, Service, registered, chan, req, halted, Stdout, Stderr, closed, files>>

\* The values a read of n.Runs may give a goroutine that last read it at
\* run := len(n.Runs), when it held run elements (the ID of the run r the
\* goroutine made): the field again, or what it held then.
ReadRuns(r) ==
    {Runs, SubSeq(Runs, 1, IF heap[r].ID < Len(Runs) THEN heap[r].ID ELSE Len(Runs))}

\* n.Runs = append(n.Runs, n.Active)
start_append(t) ==
    /\ pc[t] = "append" /\ ~ended
    /\ \E a \in ReadActive(mine[t]) : \E old \in ReadRuns(mine[t]) :
         Runs' = Append(old, a)
    /\ pc' = [pc EXCEPT ![t] = "open"]
    /\ UNCHANGED <<ex, Active, Service, registered, heap, chan, mine, lrun, ch, req, halted, Stdout, Stderr, closed, files>>

\* A nil receiver is dereferenced: the goroutine panics.
Panic(t) == pc' = [pc EXCEPT ![t] = "panicked"]

\* The os.Create calls of nodeRun.start that may fail: none, or the one of a
\* sink whose path is not empty.
CreateFails ==
    {"none"} \cup (IF Stdout # "" THEN {"stdout"} ELSE {})
             \cup (IF Stderr # "" THEN {"stderr"} ELSE {})

\* The sinks of a run after the two if len(path) > 0 blocks of nodeRun.start,
\* when the os.Create of fail (if any) fails: log.Fatalf ends the program there.
Opened(run, fail) ==
    [run EXCEPT !.StdoutBuf = IF Stdout # "" /\ fail # "stdout" THEN "open" ELSE @,
                !.StderrBuf = IF Stderr # "" /\ fail = "none" THEN "open" ELSE @]

\* The files of the run's index after the same: os.Create truncates.
Created(f, fail) ==
    [f EXCEPT !.out = IF Stdout # "" /\ fail # "stdout" THEN "empty" ELSE @,
              !.err = IF Stderr # "" /\ fail = "none" THEN "empty" ELSE @]

\* n.Active.start(c), up to the opening of the sinks (nodeRun.start):
\* r.Started = time.Now(); r.StdoutBuf, r.StderrBuf = newFileLogWriter(...)
start_open(t) ==
    /\ pc[t] = "open" /\ ~ended
    /\ \E r \in ReadActive(mine[t]) :
         IF r = Nil
         THEN /\ Panic(t)
              /\ mine' = Clear(mine, t) /\ ch' = Clear(ch, t)
              /\ heap' = heap
              /\ files' = files
         ELSE \E fail \in CreateFails :
              /\ heap' = [heap EXCEPT ![r] = Opened(@, fail)]
              /\ files' = [files EXCEPT ![heap[r].ID] = Created(@, fail)]
              /\ mine' = [mine EXCEPT ![t] = r]
              /\ ch' = ch
              /\ pc' = [pc EXCEPT ![t] = IF fail = "none" THEN "cmdstart" ELSE "fatal"]
    /\ UNCHANGED <<ex, Active, Runs, Service, registered, chan, lrun, req, halted, Stdout, Stderr, closed>>

\* A run one of whose sinks is the nil logWriter.
NoSink(run) == run.StdoutBuf = "nil" \/ run.StderrBuf = "nil"

\* r.StdoutBuf.Close(); r.StderrBuf.Close(): the second is not reached when the
\* first panics.
Closing(run) ==
    [run EXCEPT !.StdoutBuf = IF @ = "nil" THEN @ ELSE "closed",
                !.StderrBuf = IF @ = "nil" \/ run.StdoutBuf = "nil" THEN @ ELSE "closed"]

\* What a process leaves in the files of its run's index as it starts: its
\* first output on stdout and stderr, each written to the file of the sink or,
\* without a sink, discarded.
Written(f) ==
    [f EXCEPT !.out = IF Stdout # "" THEN "data" ELSE @,
              !.err = IF Stderr # "" THEN "data" ELSE @]

\* err := r.Cmd.Start() succeeded: the process runs and writes, and the waiter
\* goroutine of this run is started with this invocation's channel.
CmdStarted(t, r) ==
    /\ heap' = [heap EXCEPT ![r].proc = "live"]
    /\ files' = [files EXCEPT ![heap[r].ID] = Written(@)]
    /\ chan' = [chan EXCEPT ![ch[t]] = [tgt |-> r, wpc |-> "wait", delivered |-> 0]]
    /\ pc' = [pc EXCEPT ![t] = "spawn"]

\* err != nil: r.Error = err; r.StdoutBuf.Close(); r.StderrBuf.Close();
\* then exitCh <- struct{}{}
\* Close() on a logWriter that is nil (no sink was made) panics.
CmdFailed(t, r) ==
    /\ heap' = [heap EXCEPT ![r] = Closing([@ EXCEPT !.Error = TRUE,
                              !.proc = IF HasProcess(r) THEN @ ELSE "failed"])]
    /\ chan' = [chan EXCEPT ![ch[t]].tgt = r]
    /\ files' = files
    /\ pc' = [pc EXCEPT ![t] = IF NoSink(heap[r]) THEN "nosink" ELSE "send"]

\* r.Cmd.Start(): fails on a Cmd that already has a process ("exec: already
\* started"), otherwise the operating system decides.
start_cmd(t) ==
    /\ pc[t] = "cmdstart" /\ ~ended
    /\ LET r == mine[t] IN
         \E ok \in IF HasProcess(r) THEN {FALSE} ELSE BOOLEAN :
            IF ok THEN CmdStarted(t, r) ELSE CmdFailed(t, r)
    /\ UNCHANGED <<ex, Active, Runs, Service, registered, mine, lrun, ch, req, halted, Stdout, Stderr, closed>>

\* go func() { <-c ... }() and return
start_spawn(t) ==
    /\ pc[t] = "spawn" /\ ~ended
    /\ pc' = [pc EXCEPT ![t] = Ret(t), ![<<"h", ch[t]>>] = "recv"]
    /\ mine' = Clear(mine, t) /\ lrun' = Clear(lrun, t) /\ ch' = Clear(ch, t)
    /\ Return(t)
    /\ UNCHANGED <<ex, Active, Runs, Service, registered, heap, chan, Stdout, Stderr, closed, files>>

----------------------------------------------------------------------------
\* The child process and the goroutine of nodeRun.start that waits for it.

\* The process ends, by itself or by a signal.
ProcExit(r) ==
    /\ r \in 1..Len(heap)
    /\ heap[r].proc = "live"
    /\ heap' = [heap EXCEPT ![r].proc = "dead"]
    /\ UNCHANGED <<ex, Active, Runs, Service, registered, chan, pc, mine, lrun, ch, req, halted, Stdout, Stderr, closed, files>>

\* r.Cmd.Wait() returns
waiter_wait(i) ==
    /\ chan[i].wpc = "wait" /\ ~ended
    /\ heap[chan[i].tgt].proc = "dead"
    /\ heap' = [heap EXCEPT ![chan[i].tgt].proc = "reaped"]
    /\ chan' = [chan EXCEPT ![i].wpc = "close"]
    /\ UNCHANGED <<ex, Active, Runs, Service, registered, pc, mine, lrun, ch, req, halted, Stdout, Stderr, closed, files>>

\* What the waiter does between Wait and the send on exitCh:
\* r.StdoutBuf.Close(); r.StderrBuf.Close(); ...; r.Stopped = time.Now()
WaiterCloses(run) ==
    [Closing(run) EXCEPT !.Stopped = IF NoSink(run) THEN @ ELSE TRUE]

waiter_close(i) ==
    /\ chan[i].wpc = "close" /\ ~ended
    /\ heap' = [heap EXCEPT ![chan[i].tgt] = WaiterCloses(@)]
    /\ chan' = [chan EXCEPT ![i].wpc = IF NoSink(heap[chan[i].tgt]) THEN "nosink" ELSE "send"]
    /\ UNCHANGED <<ex, Active, Runs, Service, registered, pc, mine, lrun, ch, req, halted, Stdout, Stderr, closed, files>>

\* The goroutines blocked in exitCh <- struct{}{} on channel i: the waiter
\* <<"w", i>>, or a goroutine running nodeRun.start whose Cmd.Start failed.
Senders(i) ==
    (IF chan[i].wpc = "send" THEN {<<"w", i>>} ELSE {})
        \cup {t \in Thr : pc[t] = "send" /\ ch[t] = i}

\* The channel is unbuffered: a send completes with the receive <-c of the
\* completion handler, and the sender goes on.
deliver(i) ==
    /\ ~ended
    /\ pc[<<"h", i>>] = "recv"
    /\ \E s \in Senders(i) :
         /\ chan' = [chan EXCEPT ![i].delivered = @ + 1,
                                 ![i].wpc = IF s = <<"w", i>> THEN "done" ELSE @]
         /\ pc' = [t \in Thr |-> IF t = <<"h", i>> THEN "clear"
                                 ELSE IF t = s THEN "spawn" ELSE pc[t]]
    /\ UNCHANGED <<ex, Active, Runs, Service, registered, heap, mine, lrun, ch, req, halted, Stdout, Stderr, closed, files>>

----------------------------------------------------------------------------
\* The completion handler of node.start: go func() { <-c; ... }()

\* n.Active = nil
handler_clear(t) ==
    /\ pc[t] = "clear" /\ ~ended
    /\ Active' = Nil
    /\ pc' = [pc EXCEPT ![t] = "service"]
    /\ UNCHANGED <<ex, Runs, Service, registered, heap, chan, mine, lrun, ch, req, halted, Stdout, Stderr, closed, files>>

\* if n.Service { time.Sleep(time.Second * 1); n.start() }: a handler at
\* "start" is in its backoff sleep or about to call n.start().
handler_service(t) ==
    /\ pc[t] = "service" /\ ~ended
    /\ pc' = [pc EXCEPT ![t] = IF Service THEN "start" ELSE "done"]
    /\ UNCHANGED <<ex, Active, Runs, Service, registered, heap, chan, mine, lrun, ch, req, halted, Stdout, Stderr, closed, files>>

----------------------------------------------------------------------------
\* node.stop, node.pause, node.resume and the nodeRun methods they call

\* node.stop, node.pause and node.resume without their if n.Active != nil.
control_unchecked(t, at, next) ==
    /\ pc[t] = at /\ ~ended
    /\ mine' = [mine EXCEPT ![t] = Active]
    /\ pc' = [pc EXCEPT ![t] = next]
    /\ UNCHANGED <<ex, Active, Runs, Service, registered, heap, chan, lrun, ch, req, halted,
                   Stdout, Stderr, closed, files>>

\* if n.Active != nil, of node.stop, node.pause and node.resume
control_check(t, at, next) ==
    /\ pc[t] = at /\ ~ended
    /\ IF Active # Nil
       THEN /\ mine' = [mine EXCEPT ![t] = Active]
            /\ pc' = [pc EXCEPT ![t] = next]
            /\ UNCHANGED <<req, halted>>
       ELSE /\ mine' = mine
            /\ pc' = [pc EXCEPT ![t] = Ret(t)]
            /\ Return(t)
    /\ UNCHANGED <<ex, Active, Runs, Service, registered, heap, chan, lrun, ch, Stdout, Stderr, closed, files>>

\* nodeRun.stop: no-op without a process; r.Paused = false; r.Cmd.Process.Kill().
\* SIGKILL ends a process that still runs; until Wait returns, the supervisor
\* cannot tell a process about to die from a dead one.
Run_stop(run) ==
    IF run.proc \in {"none", "failed"} THEN run
    ELSE [run EXCEPT !.Paused = FALSE,
                     !.proc = IF @ = "live" THEN "dead" ELSE @]

\* nodeRun.pause: no-op without a process; r.Paused = true; Signal(SIGSTOP)
Run_pause(run) ==
    IF run.proc \in {"none", "failed"} THEN run
    ELSE [run EXCEPT !.Paused = TRUE]

\* nodeRun.resume without its r.Paused = false.
Run_resume_KeepsFlag(run) == run

\* nodeRun.resume: no-op without a process; r.Paused = false; Signal(SIGCONT)
Run_resume(run) ==
    IF run.proc \in {"none", "failed"} THEN run
    ELSE [run EXCEPT !.Paused = FALSE]

stop_check(t) == control_check(t, "stop", "stop_call")

\* n.Active.stop()
stop_call(t) ==
    /\ pc[t] = "stop_call" /\ ~ended
    /\ \E r \in ReadActive(mine[t]) :
         IF r = Nil
         THEN Panic(t) /\ heap' = heap
         ELSE /\ heap' = [heap EXCEPT ![r] = Run_stop(@)]
              /\ pc' = [pc EXCEPT ![t] = "stop_clear"]
    /\ mine' = Clear(mine, t)
    /\ UNCHANGED <<ex, Active, Runs, Service, registered, chan, lrun, ch, req, halted, Stdout, Stderr, closed, files>>

\* n.Active = nil
stop_clear(t) ==
    /\ pc[t] = "stop_clear" /\ ~ended
    /\ Active' = Nil
    /\ pc' = [pc EXCEPT ![t] = Ret(t)]
    /\ mine' = Clear(mine, t)
    /\ Return(t)
    /\ UNCHANGED <<ex, Runs, Service, registered, heap, chan, lrun, ch, Stdout, Stderr, closed, files>>

pause_check(t) == control_check(t, "pause", "pause_call")

\* n.Active.pause()
pause_call(t) ==
    /\ pc[t] = "pause_call" /\ ~ended
    /\ \E r \in ReadActive(mine[t]) :
         IF r = Nil
         THEN Panic(t) /\ heap' = heap /\ UNCHANGED <<req, halted>>
         ELSE /\ heap' = [heap EXCEPT ![r] = Run_pause(@)]
              /\ pc' = [pc EXCEPT ![t] = Ret(t)]
              /\ Return(t)
    /\ mine' = Clear(mine, t)
    /\ UNCHANGED <<ex, Active, Runs, Service, registered, chan, lrun, ch, Stdout, Stderr, closed, files>>

resume_check(t) == control_check(t, "resume", "resume_call")

\* n.Active.resume()
resume_call(t) ==
    /\ pc[t] = "resume_call" /\ ~ended
    /\ \E r \in ReadActive(mine[t]) :
         IF r = Nil
         THEN Panic(t) /\ heap' = heap /\ UNCHANGED <<req, halted>>
         ELSE /\ heap' = [heap EXCEPT ![r] = Run_resume(@)]
              /\ pc' = [pc EXCEPT ![t] = Ret(t)]
              /\ Return(t)
    /\ mine' = Clear(mine, t)
    /\ UNCHANGED <<ex, Active, Runs, Service, registered, chan, lrun, ch, Stdout, Stderr, closed, files>>

\* cluster.close: Kill() on the process of the active run of every node in
\* c.Nodes; main returns.
close ==
    /\ ~ended
    /\ closed' = TRUE
    /\ heap' = IF registered /\ Active # Nil /\ HasProcess(Active)
               THEN [heap EXCEPT ![Active].proc = IF @ = "live" THEN "dead" ELSE @]
               ELSE heap
    /\ UNCHANGED <<ex, Active, Runs, Service, registered, chan, pc, mine, lrun, ch, req, halted,
                   Stdout, Stderr, files>>

\* node.Status, evaluated in one piece
Status ==
    IF Active # Nil /\ HasProcess(Active)
    THEN IF heap[Active].Paused THEN "Paused" ELSE "Running"
    ELSE "Stopped"

----------------------------------------------------------------------------
Next ==
    \/ \E t \in Callers :
         \/ startNode(t) \/ stopNode(t) \/ startAll(t) \/ stopAll(t)
         \/ pauseNode(t) \/ resumeNode(t) \/ newNode_register(t)
    \/ \E t \in Thr :
         \/ start_check(t) \/ start_len(t) \/ start_new(t) \/ start_append(t)
         \/ start_open(t) \/ start_cmd(t) \/ start_spawn(t)
         \/ stop_check(t) \/ stop_call(t) \/ stop_clear(t)
         \/ pause_check(t) \/ pause_call(t)
         \/ resume_check(t) \/ resume_call(t)
    \/ \E t \in Handlers :
         \/ handler_clear(t) \/ handler_service(t)
    \/ \E i \in 1..MaxRuns :
         \/ ProcExit(i) \/ waiter_wait(i) \/ waiter_close(i) \/ deliver(i)
    \/ close

Spec == Init /\ [][Next]_vars

\* The node type by itself: newNode with any sink paths.
SpecPaths == InitPaths /\ [][Next]_vars

----------------------------------------------------------------------------
\* What a goroutine of the program does next, whichever it is.
GoStep(t) ==
    \/ start_check(t) \/ start_len(t) \/ start_new(t) \/ start_append(t)
    \/ start_open(t) \/ start_cmd(t) \/ start_spawn(t)
    \/ stop_check(t) \/ stop_call(t) \/ stop_clear(t)
    \/ pause_check(t) \/ pause_call(t)
    \/ resume_check(t) \/ resume_call(t)
    \/ handler_clear(t) \/ handler_service(t)
    \/ newNode_register(t)

WaiterStep(i) == waiter_wait(i) \/ waiter_close(i)

\* The Go scheduler runs every goroutine that can run, and a send whose
\* receiver waits completes.  Nothing makes a request arrive or a child
\* process exit.
Fairness ==
    /\ \A t \in Thr : WF_vars(GoStep(t))
    /\ \A i \in 1..MaxRuns : WF_vars(WaiterStep(i)) /\ WF_vars(deliver(i))

FairSpec == Init /\ [][Next]_vars /\ Fairness

----------------------------------------------------------------------------
\* replaceVars: os.Expand with a mapping that gives the value of a defined
\* name and "$" + name for any other.  A text is a sequence of characters.

\* The characters of a text: the three of the ${NAME} syntax, two that names
\* are made of, and one that ends a name.
Chars == {"$", "{", "}", "a", "b", "."}

IsAlphaNum(c) == c \in {"a", "b"}

\* Of the characters here, "$" is a shell special variable ($$).
IsShellSpecialVar(c) == c = "$"

Texts == UNION {[1..n -> Chars] : n \in 0..MaxLen}

\* The values a name may have.
Values == {<<".">>, <<"a">>}

\* The maps that define some of names.
Maps(names) == UNION {[D -> Values] : D \in SUBSET names}

RECURSIVE AlphaNumLen(_)
\* for i = 0; i < len(s) && isAlphaNum(s[i]); i++ {}
AlphaNumLen(s) ==
    IF s = <<>> \/ ~IsAlphaNum(Head(s)) THEN 0 ELSE 1 + AlphaNumLen(Tail(s))

RECURSIVE FirstClose(_, _)
\* The first position from i on that holds "}", or 0.
FirstClose(s, i) ==
    IF i > Len(s) THEN 0 ELSE IF s[i] = "}" THEN i ELSE FirstClose(s, i + 1)

\* os.getShellName on the text after a "$": the name and the number of
\* characters it takes.
getShellName(s) ==
    IF s[1] = "{"
    THEN LET i == FirstClose(s, 2) IN
         IF i = 0 THEN [name |-> <<>>, w |-> 1]
         ELSE IF i = 2 THEN [name |-> <<>>, w |-> 2]
         ELSE [name |-> SubSeq(s, 2, i - 1), w |-> i]
    ELSE IF IsShellSpecialVar(s[1]) THEN [name |-> <<s[1]>>, w |-> 1]
    ELSE [name |-> SubSeq(s, 1, AlphaNumLen(s)), w |-> AlphaNumLen(s)]

\* The func(name string) string of replaceVars.
mapping(varmap, name) ==
    IF name \in DOMAIN varmap THEN varmap[name] ELSE <<"$">> \o name

RECURSIVE Expand(_, _, _)
\* os.Expand.  On "${}" and on "${" without a "}" the library either drops
\* the characters (eats) or calls the mapping with the empty name, by its
\* version; a "$" that no name follows stays.
Expand(s, varmap, eats) ==
    IF s = <<>> THEN <<>>
    ELSE IF Head(s) = "$" /\ Len(s) > 1
    THEN LET g == getShellName(Tail(s))
             piece == IF g.name # <<>> THEN mapping(varmap, g.name)
                      ELSE IF g.w = 0 THEN <<"$">>
                      ELSE IF eats THEN <<>> ELSE mapping(varmap, <<>>)
         IN  piece \o Expand(SubSeq(s, g.w + 2, Len(s)), varmap, eats)
    ELSE <<Head(s)>> \o Expand(Tail(s), varmap, eats)

replaceVars(text, varmap, eats) == Expand(text, varmap, eats)

\* newNode is called with a template, an environment that defines some of
\* the names a..., and node.start will define some of the names b...
InitExpand ==
    /\ InitNode("path", "path")
    /\ \E text \in Texts : \E env \in Maps({<<"a">>}) : \E run \in Maps({<<"b">>}) :
       \E eats \in BOOLEAN :
         ex = [text |-> text, env |-> env, vars |-> run, out |-> text,
               stage |-> "new", eats |-> eats]

\* newNode: stdout = replaceVars(stdout, env)
newNode_replaceVars ==
    /\ ex.stage = "new"
    /\ ex' = [ex EXCEPT !.out = replaceVars(ex.text, ex.env, ex.eats), !.stage = "node"]
    /\ UNCHANGED <<Active, Runs, Service, registered, heap, chan, pc, mine, lrun, ch, req,
                   halted, Stdout, Stderr, files, closed>>

\* node.start: stdout := replaceVars(n.Stdout, vars)
start_replaceVars ==
    /\ ex.stage = "node"
    /\ ex' = [ex EXCEPT !.out = replaceVars(ex.out, ex.vars, ex.eats), !.stage = "run"]
    /\ UNCHANGED <<Active, Runs, Service, registered, heap, chan, pc, mine, lrun, ch, req,
                   halted, Stdout, Stderr, files, closed>>

NextExpand == newNode_replaceVars \/ start_replaceVars

\* The path of a template from newNode to the run.
SpecExpand == InitExpand /\ [][NextExpand]_vars

----------------------------------------------------------------------------
\* The states of a run (spec section 4.3), read off the process handle.
RunState(r) ==
    CASE heap[r].proc = "none" -> "Launching"
      [] heap[r].proc \in {"live", "dead"} -> "Running"
      [] heap[r].proc = "reaped" -> "Exited"
      [] heap[r].proc = "failed" -> "LaunchFailed"

AllRuns == 1..Len(heap)

LastRun == IF Runs = <<>> THEN Nil ELSE Runs[Len(Runs)]

\* No goroutine is inside a statement sequence of the node: each one is idle,
\* finished, or blocked on a channel or on a running process.
Stable ==
    /\ \A t \in Thr : pc[t] \in {"idle", "none", "recv", "done", "send", "panicked"}
    /\ \A i \in 1..MaxRuns :
         /\ chan[i].wpc \in {"none", "wait", "send", "done"}
         /\ chan[i].wpc = "wait" => heap[chan[i].tgt].proc = "live"
         /\ pc[<<"h", i>>] = "recv" => Senders(i) = {}

\* C1: at most one run of the node has a process that was launched and whose
\* exit has not been observed yet.
C1_AtMostOneRunning ==
    Cardinality({r \in AllRuns : RunState(r) = "Running"}) <= 1

\* C2: whenever the node is at rest, activeRun is set if and only if the
\* most recent run of the history is Running.
C2_ActiveIffLastRunning ==
    Stable =>
        ((Active # Nil) <=> (LastRun # Nil /\ RunState(LastRun) = "Running"))

\* C3: a stop, pause or resume request never dereferences an activeRun that
\* was cleared after its nil check.
C3_ControlNeverUsesCleared ==
    \A t \in Callers :
        pc[t] = "panicked" =>
            req[t] \notin {"stopNode", "stopAll", "pauseNode", "resumeNode"}

\* C4: start() on a node whose activeRun is set returns at once: it appends
\* no run, leaves activeRun and every run as they are and queues nothing.
C4_StartOnActiveIsNoOp ==
    [][\A t \in Thr :
          (pc[t] = "start" /\ Active # Nil /\ pc'[t] # "start") =>
              /\ Runs' = Runs /\ Active' = Active /\ heap' = heap
              /\ pc'[t] = Ret(t)]_vars

\* C4 witness: a start request (or a restart) runs start() on a node whose
\* activeRun is set and whose history holds that run.
C4_Witness ==
    \E t \in Thr :
        /\ pc[t] = "start" /\ Active # Nil /\ Runs # <<>>
        /\ t \in Callers => req[t] \in {"startNode", "startAll"}

\* C5: the check of activeRun, the run index, the append and the setting of
\* activeRun of start() are under mutual exclusion: no two goroutines are
\* between the check and the append at the same time.
C5_StartIsExclusive ==
    Cardinality({t \in Thr : pc[t] \in {"len", "new", "append"}}) <= 1

\* C6: once stopNode has returned, and until a start request arrives, no
\* completion handler creates or appends a run.
C6_NoRelaunchAfterStopNode ==
    [][("stopNode" \in halted) =>
          \A h \in Handlers :
              ~(pc[h] \in {"new", "append"} /\ pc'[h] # pc[h])]_vars

\* The model's bound on run objects keeps a goroutine from allocating.
BoundHit == \E t \in Thr : pc[t] = "new" /\ Len(heap) = MaxRuns

\* C7: whenever a run of a service node has exited and Service is still
\* true, the node eventually has an active run with status Running again,
\* unless the program exits.
C7_ServiceRestarts ==
    [](((\E r \in AllRuns : RunState(r) = "Exited") /\ Service) =>
          <>(Status = "Running" \/ ~Service \/ BoundHit \/ exited))

\* C8: the completion of every run is signaled exactly once: never twice,
\* and a run that has exited or failed to launch is eventually delivered to
\* the completion handler.
C8_NotifiedExactlyOnce ==
    /\ [](\A i \in 1..MaxRuns : chan[i].delivered <= 1)
    /\ \A i \in 1..MaxRuns :
         [](( /\ chan[i].tgt # Nil
              /\ RunState(chan[i].tgt) \in {"Exited", "LaunchFailed"})
            => <>(chan[i].delivered = 1 \/ exited))

SinksClosed(r) == heap[r].StdoutBuf = "closed" /\ heap[r].StderrBuf = "closed"

\* C9: in every state in which the completion handler has received the
\* notification of a run, both sinks of that run are closed.
C9_NotifiedAfterSinksClosed ==
    \A i \in 1..MaxRuns : chan[i].delivered > 0 => SinksClosed(chan[i].tgt)

\* C10: a start() whose launch failed signals completion and returns, and
\* activeRun is eventually cleared of the failed run.
C10_FailedLaunchReturns ==
    /\ \A t \in Thr : (pc[t] = "send") ~> (pc[t] # "send" \/ exited)
    /\ \A r \in 1..MaxRuns :
         (r \in AllRuns /\ RunState(r) = "LaunchFailed" /\ Active = r)
             ~> (Active # r \/ exited)

\* C11: a failure to create a sink file of a run never ends the program: no
\* goroutine reaches log.Fatalf.
C11_SinkFailureIsScoped == \A t \in Thr : pc[t] # "fatal"

\* C12: the call of stop(), pause() or resume() on a run leaves every run
\* that is Exited or LaunchFailed exactly as it was.
C12_ControlOnFinishedIsNoOp ==
    [][\A t \in Callers :
          (pc[t] \in {"stop_call", "pause_call", "resume_call"} /\ pc'[t] # pc[t]) =>
              \A r \in AllRuns :
                  RunState(r) \in {"Exited", "LaunchFailed"} => heap'[r] = heap[r]]_vars

\* C13: the run at position i of the history (counted from 0) has index i.
C13_IndexIsPosition ==
    \A i \in 1..Len(Runs) : Runs[i] # Nil /\ heap[Runs[i]].ID = i - 1

\* C14: status() is Paused or Running exactly when the active run is Running
\* (launched, exit not observed), by its paused flag, and Stopped otherwise.
C14_StatusIsDerived ==
    Status = IF Active # Nil /\ RunState(Active) = "Running"
             THEN IF heap[Active].Paused THEN "Paused" ELSE "Running"
             ELSE "Stopped"

\* C15: the sink files of a run that is Exited hold what its process wrote,
\* and those of a run that is LaunchFailed are as nodeRun.start created them.
C15_FinishedOutputIsStable ==
    \A r \in AllRuns :
        /\ RunState(r) = "Exited" => files[heap[r].ID] = Written(files[heap[r].ID])
        /\ RunState(r) = "LaunchFailed" =>
              files[heap[r].ID] = Created(files[heap[r].ID], "none")

\* C16: on a node whose status is Running, the call of pause() on the active
\* run makes the status Paused, and on a node whose status is Paused the call
\* of resume() on the active run makes it Running again; both, and their
\* checks of activeRun, keep the active run and the history.
C16_PauseResumeRoundTrip ==
    [][\A t \in Callers :
          /\ (pc[t] = "pause_call" /\ mine[t] = Active /\ Status = "Running"
                  /\ pc'[t] # pc[t]) =>
                (Status' = "Paused" /\ Active' = Active /\ Runs' = Runs)
          /\ (pc[t] = "resume_call" /\ mine[t] = Active /\ Status = "Paused"
                  /\ pc'[t] # pc[t]) =>
                (Status' = "Running" /\ Active' = Active /\ Runs' = Runs)
          /\ (pc[t] \in {"pause", "resume"} /\ pc'[t] # pc[t]) =>
                (Active' = Active /\ Runs' = Runs /\ heap' = heap)]_vars

\* C16 witness: a pause request has made the status of the node Paused and a
\* resume request is at its call of resume() on the active run.
C16_Witness ==
    \E t \in Callers :
        /\ req[t] = "resumeNode" /\ pc[t] = "resume_call"
        /\ mine[t] = Active /\ Status = "Paused"

\* C17: stop(), pause() and resume() on a node without an active run return
\* at once, without a panic, and leave activeRun, the history and every run
\* as they are.
C17_ControlWithoutActiveIsNoOp ==
    [][\A t \in Callers :
          (pc[t] \in {"stop", "pause", "resume"} /\ Active = Nil /\ pc'[t] # pc[t]) =>
              /\ Active' = Nil /\ Runs' = Runs /\ heap' = heap
              /\ pc'[t] = "idle"]_vars

\* C17 witness: a stop, pause or resume request runs on a node that has
\* launched a run and has no active run.
C17_Witness ==
    \E t \in Callers :
        /\ pc[t] \in {"stop", "pause", "resume"}
        /\ Active = Nil /\ Runs # <<>>

\* C18: the completion handler of a run leaves activeRun as it is when
\* activeRun refers to another run.
C18_HandlerClearsOnlyOwnRun ==
    [][\A i \in 1..MaxRuns :
          (pc[<<"h", i>>] = "clear" /\ pc'[<<"h", i>>] # "clear"
              /\ Active # Nil /\ Active # chan[i].tgt) =>
                Active' = Active]_vars

\* C19: after cluster.close no run of a node of the registry has a process
\* that is still running.
C19_CloseKillsEveryProcess ==
    (closed /\ registered) => \A r \in AllRuns : heap[r].proc # "live"

\* C20: no goroutine fails on the sink of a stream whose path is empty.
C20_AbsentSinkNeverFails ==
    /\ \A t \in Thr : pc[t] # "nosink"
    /\ \A i \in 1..MaxRuns : chan[i].wpc # "nosink"

\* C21: once stopAll has returned, and until a start request arrives, no
\* completion handler creates or appends a run.
C21_StaysStoppedAfterStopAll ==
    [][("stopAll" \in halted) =>
          \A h \in Handlers :
              ~(pc[h] \in {"new", "append"} /\ pc'[h] # pc[h])]_vars

RECURSIVE Template(_)
\* A text made of ${NAME}, with NAME of one or more name characters, and of
\* characters other than "$", "{" and "}".
Template(s) ==
    \/ s = <<>>
    \/ Head(s) \notin {"$", "{", "}"} /\ Template(Tail(s))
    \/ /\ Len(s) >= 4 /\ s[1] = "$" /\ s[2] = "{"
       /\ AlphaNumLen(SubSeq(s, 3, Len(s))) > 0
       /\ LET n == AlphaNumLen(SubSeq(s, 3, Len(s))) IN
            /\ Len(s) >= n + 3 /\ s[n + 3] = "}"
            /\ Template(SubSeq(s, n + 4, Len(s)))

\* C22: on a text of ${NAME}s, replaceVars with a map that defines none of
\* its names returns the text unchanged, and replaceVars with one map and
\* then with another gives what replaceVars gives with the two maps together.
C22_ExpansionLaws ==
    Template(ex.text) =>
        /\ (ex.stage = "node" /\ DOMAIN ex.env = {}) => ex.out = ex.text
        /\ ex.stage = "run" =>
              ex.out = replaceVars(ex.text, ex.env @@ ex.vars, ex.eats)
====
